---------------------------- MODULE Spec2Model ----------------------------
(***************************************************************************)
(* Model of bootloader-payloads/payloads/dump_mem/dump_mem.c: the hook     *)
(* entry point _start and the dump routine doit.                           *)
(*                                                                         *)
(* One invocation is modelled statement by statement (pc is the position   *)
(* in _start / doit).  Device memory is a byte array over 0..MemSize-1;    *)
(* every other 32-bit address is unmapped and faults when read.  The       *)
(* registers r2-r12 and lr, the stack pointer and the stack slots used by  *)
(* stmfd / ldmfd are modelled explicitly.  trace is the log of memory      *)
(* loads, stores and transport calls the invocation has performed.         *)
(***************************************************************************)
EXTENDS Integers, Sequences, FiniteSets, TLC

(* ------------------------------ bounds --------------------------------- *)
\* number of mapped bytes of device memory (addresses 0..MemSize-1)
MemSize == 24
\* largest "small" byte count the host requests (besides the huge ones)
MaxCount == 3
\* register values range over 0..MaxVal
MaxVal == 1
\* length of the response buffer region observed by the frame conditions
RespLen == 4

(* -------------------------- program constants -------------------------- *)
\* read_buf+4 : offset of the target address field
AddrOffset == 4
\* read_buf+8 : offset of the byte count field
SizeOffset == 8
\* write_buf[0] : offset of the status byte
StatusOffset == 0
\* write_buf[0] = 0 : the status value
StatusValue == 0
\* return 0 : doit's return value
DoitReturnValue == 0

ByteMod == 2 ^ 8
WordBytes == 4
\* the command buffer spans offsets 0 .. SizeOffset + 3
CmdLen == SizeOffset + WordBytes
\* address the payload is loaded at: the value "adr r9, _start" produces
StartAddr == WordBytes * (2 ^ 14)
\* value of the stack pointer when the hook enters _start
StackTop == WordBytes * 32
\* where the hook places the command buffer (word aligned)
ReadBufAddr == WordBytes * 2
\* where the hook may place the response buffer: _start takes any pointer,
\* so besides regions apart from the command buffer (below it, above it)
\* the response buffer may start inside the command buffer, at its first
\* byte, in the address field, in the count field or at its last byte
WriteBufAddrs ==
    {0, MemSize - RespLen} \cup
    {ReadBufAddr + k : k \in {0, AddrOffset, SizeOffset + 1, CmdLen - 1}}

\* char greeting[] = "Ok\0";  the literal's own characters 'O','k','\0'
\* followed by the terminator every string literal carries
greeting == <<79, 107, 0>> \o <<0>>
\* sizeof(greeting)
SizeofGreeting == Len(greeting)

\* stmfd sp!, {r2-r12, lr}
StmfdList == <<2, 3, 4, 5, 6, 7, 8, 9, 10, 11, 12, 14>>
\* the restore list with the link register forgotten
LdmfdListNoLr == <<2, 3, 4, 5, 6, 7, 8, 9, 10, 11, 12>>
\* ldmfd sp!, {r2-r12, lr}
LdmfdList == <<2, 3, 4, 5, 6, 7, 8, 9, 10, 11, 12, 14>>

RegNames == (2..12) \cup {14}
Vals == 0..MaxVal
\* register sets the call into doit (and the transport routines below it)
\* may leave changed: none, r9 alone, lr alone, the AAPCS callee-saved
\* ones, the AAPCS scratch ones, or every one of them
ClobberSets == {{}, {9}, {14}, 4..11, {2, 3, 12, 14}, RegNames}

StackSlots == {StackTop - WordBytes * k : k \in 1..(Len(StmfdList) + 1)}

VARIABLES
    mem,        \* device memory: [0..MemSize-1 -> 0..255]
    read_buf,   \* r0 at entry: address of the command buffer
    write_buf,  \* r1 at entry: address of the response buffer
    bigEndian,  \* byte order of the build (shared by host and device)
    regs,       \* r2-r12, lr
    sp,         \* stack pointer
    stackMem,   \* the stack slots below StackTop
    size,       \* doit: uint32_t size
    tar_addr,   \* doit: char *tar_addr
    res,        \* _start: int res
    r0,         \* return-value register
    pc,         \* position in _start / doit
    trace,      \* loads, stores and transport calls performed so far
    mem0,       \* history: memory at invocation time
    regs0,      \* history: r2-r12, lr at entry
    sp0,        \* history: sp at entry
    hostAddr,   \* history: the address the host put in the command
    hostCount,  \* history: the count the host put in the command
    preRestore, \* history: r2-r12, lr just before ldmfd
    doitStatus  \* history: the value doit returned

vars == <<mem, read_buf, write_buf, bigEndian, regs, sp, stackMem, size,
          tar_addr, res, r0, pc, trace, mem0, regs0, sp0, hostAddr,
          hostCount, preRestore, doitStatus>>

(* ------------------------------ helpers --------------------------------- *)
Min(S) == CHOOSE x \in S : \A y \in S : x <= y

\* A 32-bit value (uint32_t, char *) is kept as its four bytes, least
\* significant first, so that the full 32-bit range is represented exactly.
Words == [1..WordBytes -> 0..(ByteMod - 1)]
\* the word whose value is n, for 0 <= n < 2^31
ToWord(n) ==
    <<n % ByteMod, (n \div ByteMod) % ByteMod,
      (n \div (ByteMod ^ 2)) % ByteMod, (n \div (ByteMod ^ 3)) % ByteMod>>
\* 0xFFFFFFFF
MaxWord == [i \in 1..WordBytes |-> ByteMod - 1]
\* w <= k, for 0 <= k < 2^24
WordLeq(w, k) ==
    w[4] = 0 /\ w[1] + w[2] * ByteMod + w[3] * (ByteMod ^ 2) <= k
\* n <= w, for 0 <= n < 2^24
NatLeqWord(n, w) ==
    w[4] > 0 \/ n <= w[1] + w[2] * ByteMod + w[3] * (ByteMod ^ 2)
\* the value of w, for w < 2^24
WordToNat(w) == w[1] + w[2] * ByteMod + w[3] * (ByteMod ^ 2)
\* (w + i) mod 2^32 for a small natural i: pointer arithmetic
WordAdd(w, i) ==
    LET s1 == w[1] + i
        s2 == w[2] + (s1 \div ByteMod)
        s3 == w[3] + (s2 \div ByteMod)
        s4 == w[4] + (s3 \div ByteMod)
    IN  <<s1 % ByteMod, s2 % ByteMod, s3 % ByteMod, s4 % ByteMod>>

Event(e, b, a, n, d, f) ==
    [ev |-> e, buf |-> b, addr |-> a, len |-> n, data |-> d, fault |-> f]

\* the four bytes of word w in the order the host stores them in memory
EncodeWord(w, be) ==
    IF be THEN <<w[4], w[3], w[2], w[1]>> ELSE w

\* a narrow load: only the byte at the address
LoadWordByteOnly(m, a, be) ==
    <<m[a], 0, 0, 0>>
\* *((uint32_t *)p) : a 32-bit load of the four bytes at a
LoadWord(m, a, be) ==
    IF be
    THEN <<m[a + 3], m[a + 2], m[a + 1], m[a]>>
    ELSE <<m[a], m[a + 1], m[a + 2], m[a + 3]>>

\* an address is mapped when it lies inside the memory array
Readable(m, w) == WordLeq(w, ByteMod ^ 2) /\ WordToNat(w) \in DOMAIN m

\* UART_protocol_send_single(buffer, length): one frame of exactly length
\* bytes taken from the buffer
UART_protocol_send_single(buffer, length) ==
    [i \in 1..length |-> buffer[i]]

\* UART_protocol_send_many(source, length): one frame of length bytes read
\* directly from memory in address order.  Reading an unmapped address is a
\* hardware fault: the bytes before it have been streamed, nothing follows.
\* (A range longer than the mapped memory meets an unmapped address within
\* its first Cardinality(DOMAIN m) + 1 bytes.)
UART_protocol_send_many(m, source, length) ==
    LET mapped == Cardinality(DOMAIN m)
        span   == IF WordLeq(length, mapped) THEN WordToNat(length) ELSE mapped + 1
        bad    == {i \in 0..(span - 1) : ~Readable(m, WordAdd(source, i))}
        cnt    == IF bad = {} THEN span ELSE Min(bad)
    IN  [data  |-> [i \in 1..cnt |-> m[WordToNat(WordAdd(source, i - 1))]],
         fault |-> bad # {}]

\* initial fillings of memory
Patterns == {0, 1}
Pattern(p, a) == (a * 17 + p * 29 + 3) % ByteMod

(* ------------------------------- Init ----------------------------------- *)
\* addresses the host may ask for: all of mapped memory, the first unmapped
\* ones, one with a non-zero second byte and the top of the address space
HostAddrs == {ToWord(n) : n \in (0..(MemSize + 1)) \cup {ByteMod + 1}} \cup {MaxWord}
\* counts the host may ask for: small ones and ones that run past memory
HostCounts == {ToWord(n) : n \in (0..MaxCount) \cup {MemSize + ByteMod}} \cup {MaxWord}

InitMem(p, rb, a, n, be) ==
    [x \in 0..(MemSize - 1) |->
        IF x \in (rb + AddrOffset)..(rb + AddrOffset + WordBytes - 1)
        THEN EncodeWord(a, be)[x - (rb + AddrOffset) + 1]
        ELSE IF x \in (rb + SizeOffset)..(rb + SizeOffset + WordBytes - 1)
        THEN EncodeWord(n, be)[x - (rb + SizeOffset) + 1]
        ELSE Pattern(p, x)]

Init ==
    /\ read_buf = ReadBufAddr
    /\ write_buf \in WriteBufAddrs
    /\ bigEndian \in BOOLEAN
    /\ hostAddr \in HostAddrs
    /\ hostCount \in HostCounts
    /\ \E p \in Patterns :
          mem = InitMem(p, read_buf, hostAddr, hostCount, bigEndian)
    /\ mem0 = mem
    /\ \E v \in Vals : regs = [r \in RegNames |-> (r + v) % (MaxVal + 1)]
    /\ regs0 = regs
    /\ sp = StackTop
    /\ sp0 = sp
    /\ stackMem = [a \in StackSlots |-> MaxVal + 1]
    /\ size = ToWord(0)
    /\ tar_addr = ToWord(0)
    /\ res = -1
    /\ r0 = read_buf
    /\ pc = "entry"
    /\ trace = <<>>
    /\ preRestore = regs
    /\ doitStatus = -1

(* ------------------------------ _start ---------------------------------- *)
\* __asm__("stmfd sp!, {r2-r12, lr}")
Start_stmfd ==
    /\ pc = "entry"
    /\ sp' = sp - WordBytes * Len(StmfdList)
    /\ stackMem' = [a \in DOMAIN stackMem |->
                      IF \E i \in 1..Len(StmfdList) : a = sp' + WordBytes * (i - 1)
                      THEN regs[StmfdList[CHOOSE i \in 1..Len(StmfdList) :
                                              a = sp' + WordBytes * (i - 1)]]
                      ELSE stackMem[a]]
    /\ pc' = "adr"
    /\ UNCHANGED <<mem, read_buf, write_buf, bigEndian, regs, size, tar_addr,
                   res, r0, trace, mem0, regs0, sp0, hostAddr, hostCount,
                   preRestore, doitStatus>>

\* __asm__("adr r9, _start")
Start_adr ==
    /\ pc = "adr"
    /\ regs' = [regs EXCEPT ![9] = StartAddr]
    /\ pc' = "call"
    /\ UNCHANGED <<mem, read_buf, write_buf, bigEndian, sp, stackMem, size,
                   tar_addr, res, r0, trace, mem0, regs0, sp0, hostAddr,
                   hostCount, preRestore, doitStatus>>

\* doit(read_buf, write_buf) : control enters doit
Start_call ==
    /\ pc = "call"
    /\ pc' = "load_size"
    /\ UNCHANGED <<mem, read_buf, write_buf, bigEndian, regs, sp, stackMem,
                   size, tar_addr, res, r0, trace, mem0, regs0, sp0, hostAddr,
                   hostCount, preRestore, doitStatus>>

\* int res = doit(...) : the returned value is kept in res
Start_assign ==
    /\ pc = "assign"
    /\ res' = r0
    /\ preRestore' = regs
    /\ pc' = "ldmfd"
    /\ UNCHANGED <<mem, read_buf, write_buf, bigEndian, regs, sp, stackMem,
                   size, tar_addr, r0, trace, mem0, regs0, sp0, hostAddr,
                   hostCount, doitStatus>>

\* __asm("ldmfd sp!, {r2-r12, lr}")
Start_ldmfd ==
    /\ pc = "ldmfd"
    /\ regs' = [r \in RegNames |->
                  IF \E i \in 1..Len(LdmfdList) : LdmfdList[i] = r
                  THEN stackMem[sp + WordBytes *
                         ((CHOOSE i \in 1..Len(LdmfdList) : LdmfdList[i] = r) - 1)]
                  ELSE regs[r]]
    /\ sp' = sp + WordBytes * Len(LdmfdList)
    /\ pc' = "ret"
    /\ UNCHANGED <<mem, read_buf, write_buf, bigEndian, stackMem, size,
                   tar_addr, res, r0, trace, mem0, regs0, sp0, hostAddr,
                   hostCount, preRestore, doitStatus>>

\* return res
Start_return ==
    /\ pc = "ret"
    /\ r0' = res
    /\ pc' = "done"
    /\ UNCHANGED <<mem, read_buf, write_buf, bigEndian, regs, sp, stackMem,
                   size, tar_addr, res, trace, mem0, regs0, sp0, hostAddr,
                   hostCount, preRestore, doitStatus>>


(* ------------------------------- doit ----------------------------------- *)
\* the count field fetched from the address field's offset
Doit_load_size_wrong_offset ==
    /\ pc = "load_size"
    /\ size' = LoadWord(mem, read_buf + AddrOffset, bigEndian)
    /\ trace' = Append(trace, Event("load", "mem", ToWord(read_buf + AddrOffset),
                                    ToWord(WordBytes), <<size'>>, FALSE))
    /\ pc' = "load_addr"
    /\ UNCHANGED <<mem, read_buf, write_buf, bigEndian, regs, sp, stackMem,
                   tar_addr, res, r0, mem0, regs0, sp0, hostAddr, hostCount,
                   preRestore, doitStatus>>
\* uint32_t size = *((uint32_t *)(read_buf+8));
Doit_load_size ==
    /\ pc = "load_size"
    /\ size' = LoadWord(mem, read_buf + SizeOffset, bigEndian)
    /\ trace' = Append(trace, Event("load", "mem", ToWord(read_buf + SizeOffset),
                                    ToWord(WordBytes), <<size'>>, FALSE))
    /\ pc' = "load_addr"
    /\ UNCHANGED <<mem, read_buf, write_buf, bigEndian, regs, sp, stackMem,
                   tar_addr, res, r0, mem0, regs0, sp0, hostAddr, hostCount,
                   preRestore, doitStatus>>

\* char *tar_addr = *((char **)(read_buf+4));
Doit_load_addr ==
    /\ pc = "load_addr"
    /\ tar_addr' = LoadWord(mem, read_buf + AddrOffset, bigEndian)
    /\ trace' = Append(trace, Event("load", "mem", ToWord(read_buf + AddrOffset),
                                    ToWord(WordBytes), <<tar_addr'>>, FALSE))
    /\ pc' = "send_single"
    /\ UNCHANGED <<mem, read_buf, write_buf, bigEndian, regs, sp, stackMem,
                   size, res, r0, mem0, regs0, sp0, hostAddr, hostCount,
                   preRestore, doitStatus>>

\* the greeting send with the status byte already set before the transfer
Doit_send_single_early_status ==
    /\ pc = "send_single"
    /\ mem' = [mem EXCEPT ![write_buf + StatusOffset] = StatusValue]
    /\ trace' = trace \o
                <<Event("store", "mem", ToWord(write_buf + StatusOffset), ToWord(1),
                        <<StatusValue>>, FALSE),
                  Event("send_single", "greeting", ToWord(0), ToWord(SizeofGreeting),
                        UART_protocol_send_single(greeting, SizeofGreeting), FALSE)>>
    /\ pc' = "send_many"
    /\ UNCHANGED <<read_buf, write_buf, bigEndian, regs, sp, stackMem, size,
                   tar_addr, res, r0, mem0, regs0, sp0, hostAddr, hostCount,
                   preRestore, doitStatus>>
\* UART_protocol_send_single(greeting, sizeof(greeting));
Doit_send_single ==
    /\ pc = "send_single"
    /\ trace' = Append(trace,
                  Event("send_single", "greeting", ToWord(0), ToWord(SizeofGreeting),
                        UART_protocol_send_single(greeting, SizeofGreeting), FALSE))
    /\ pc' = "send_many"
    /\ UNCHANGED <<mem, read_buf, write_buf, bigEndian, regs, sp, stackMem,
                   size, tar_addr, res, r0, mem0, regs0, sp0, hostAddr,
                   hostCount, preRestore, doitStatus>>

\* the bulk send started one byte past the target address
Doit_send_many_off_by_one ==
    /\ pc = "send_many"
    /\ LET out == UART_protocol_send_many(mem, WordAdd(tar_addr, 1), size)
       IN  /\ trace' = Append(trace, Event("send_many", "mem",
                                WordAdd(tar_addr, 1), size, out.data, out.fault))
           /\ pc' = IF out.fault THEN "fault" ELSE "write"
    /\ UNCHANGED <<mem, read_buf, write_buf, bigEndian, regs, sp, stackMem,
                   size, tar_addr, res, r0, mem0, regs0, sp0, hostAddr,
                   hostCount, preRestore, doitStatus>>
\* the bulk send with the count fetched again from the command buffer
Doit_send_many_reload ==
    /\ pc = "send_many"
    /\ LET n   == LoadWord(mem, read_buf + SizeOffset, bigEndian)
           out == UART_protocol_send_many(mem, tar_addr, n)
       IN  /\ trace' = trace \o
                       <<Event("load", "mem", ToWord(read_buf + SizeOffset), ToWord(WordBytes),
                               <<n>>, FALSE),
                         Event("send_many", "mem", tar_addr, n, out.data, out.fault)>>
           /\ pc' = IF out.fault THEN "fault" ELSE "write"
    /\ UNCHANGED <<mem, read_buf, write_buf, bigEndian, regs, sp, stackMem,
                   size, tar_addr, res, r0, mem0, regs0, sp0, hostAddr,
                   hostCount, preRestore, doitStatus>>
\* the bulk send with a fault turned into an error status
Doit_send_many_checked ==
    /\ pc = "send_many"
    /\ LET out == UART_protocol_send_many(mem, tar_addr, size)
       IN  /\ trace' = IF out.fault
                       THEN trace \o
                            <<Event("send_many", "mem", tar_addr, size,
                                    out.data, out.fault),
                              Event("store", "mem", ToWord(write_buf + StatusOffset), ToWord(1),
                                    <<1>>, FALSE)>>
                       ELSE Append(trace, Event("send_many", "mem", tar_addr,
                                                size, out.data, out.fault))
           /\ mem' = IF out.fault
                     THEN [mem EXCEPT ![write_buf + StatusOffset] = 1]
                     ELSE mem
           /\ pc' = IF out.fault THEN "doit_ret" ELSE "write"
    /\ UNCHANGED <<read_buf, write_buf, bigEndian, regs, sp, stackMem,
                   size, tar_addr, res, r0, mem0, regs0, sp0, hostAddr,
                   hostCount, preRestore, doitStatus>>
\* UART_protocol_send_many(tar_addr, size);
\* control comes back only when every byte of the range could be read
Doit_send_many ==
    /\ pc = "send_many"
    /\ LET out == UART_protocol_send_many(mem, tar_addr, size)
       IN  /\ trace' = Append(trace, Event("send_many", "mem", tar_addr, size,
                                           out.data, out.fault))
           /\ pc' = IF out.fault THEN "fault" ELSE "write"
    /\ UNCHANGED <<mem, read_buf, write_buf, bigEndian, regs, sp, stackMem,
                   size, tar_addr, res, r0, mem0, regs0, sp0, hostAddr,
                   hostCount, preRestore, doitStatus>>

\* the status stored as a whole word instead of one byte
Doit_write_status_word ==
    /\ pc = "write"
    /\ mem' = [a \in DOMAIN mem |->
                 IF a \in write_buf..(write_buf + WordBytes - 1)
                 THEN StatusValue ELSE mem[a]]
    /\ trace' = Append(trace, Event("store", "mem", ToWord(write_buf + StatusOffset),
                                    ToWord(WordBytes), <<StatusValue>>, FALSE))
    /\ pc' = "doit_ret"
    /\ UNCHANGED <<read_buf, write_buf, bigEndian, regs, sp, stackMem, size,
                   tar_addr, res, r0, mem0, regs0, sp0, hostAddr, hostCount,
                   preRestore, doitStatus>>
\* the status stored through the wrong buffer argument
Doit_write_status_read_buf ==
    /\ pc = "write"
    /\ mem' = [mem EXCEPT ![read_buf + StatusOffset] = StatusValue]
    /\ trace' = Append(trace, Event("store", "mem", ToWord(read_buf + StatusOffset), ToWord(1),
                                    <<StatusValue>>, FALSE))
    /\ pc' = "doit_ret"
    /\ UNCHANGED <<read_buf, write_buf, bigEndian, regs, sp, stackMem, size,
                   tar_addr, res, r0, mem0, regs0, sp0, hostAddr, hostCount,
                   preRestore, doitStatus>>
\* write_buf[0] = 0;
Doit_write_status ==
    /\ pc = "write"
    /\ mem' = [mem EXCEPT ![write_buf + StatusOffset] = StatusValue]
    /\ trace' = Append(trace, Event("store", "mem", ToWord(write_buf + StatusOffset), ToWord(1),
                                    <<StatusValue>>, FALSE))
    /\ pc' = "doit_ret"
    /\ UNCHANGED <<read_buf, write_buf, bigEndian, regs, sp, stackMem, size,
                   tar_addr, res, r0, mem0, regs0, sp0, hostAddr, hostCount,
                   preRestore, doitStatus>>

\* return 0;  control goes back to _start with r2-r12 and lr holding
\* whatever doit and the transport routines left in them
Doit_return ==
    /\ pc = "doit_ret"
    /\ r0' = DoitReturnValue
    /\ doitStatus' = r0'
    /\ \E S \in ClobberSets, v \in Vals :
          regs' = [r \in RegNames |-> IF r \in S THEN v ELSE regs[r]]
    /\ pc' = "assign"
    /\ UNCHANGED <<mem, read_buf, write_buf, bigEndian, sp, stackMem, size,
                   tar_addr, res, trace, mem0, regs0, sp0, hostAddr, hostCount,
                   preRestore>>

(* --------------------------- specification ------------------------------ *)
Next ==
    \/ Start_stmfd
    \/ Start_adr
    \/ Start_call
    \/ Doit_load_size
    \/ Doit_load_addr
    \/ Doit_send_single
    \/ Doit_send_many
    \/ Doit_write_status
    \/ Doit_return
    \/ Start_assign
    \/ Start_ldmfd
    \/ Start_return

Spec == Init /\ [][Next]_vars



(* ------------------------ vocabulary of the claims ---------------------- *)
IsTransport(e) == e.ev \in {"send_single", "send_many"}
TransportCalls == SelectSeq(trace, IsTransport)
StatusAddr == write_buf + StatusOffset
\* the addresses event e reads from device memory
ReadsOf(e) ==
    IF e.ev = "load" THEN {WordAdd(e.addr, k) : k \in 0..(WordBytes - 1)}
    ELSE IF e.ev = "send_many"
    THEN {WordAdd(e.addr, k) : k \in 0..(Len(e.data) - 1)}
    ELSE {}
\* the addresses event e writes in device memory
WritesOf(e) ==
    IF e.ev = "store" THEN {WordAdd(e.addr, k) : k \in 0..(WordToNat(e.len) - 1)}
    ELSE {}
CmdAddrs == {ToWord(read_buf + k) : k \in 0..(CmdLen - 1)}
StatusStores == {i \in 1..Len(trace) : ToWord(StatusAddr) \in WritesOf(trace[i])}
\* the requested range lies inside mapped memory
RangeReadable ==
    /\ WordLeq(hostAddr, MemSize)
    /\ WordLeq(hostCount, MemSize)
    /\ WordToNat(hostAddr) + WordToNat(hostCount) <= MemSize
\* the bytes memory held at A .. A+N-1 when the payload was invoked
ExpectedFrame ==
    [i \in 1..WordToNat(hostCount) |-> mem0[WordToNat(hostAddr) + i - 1]]
RequestedAddrs == {WordAdd(hostAddr, k) : k \in 0..(WordToNat(hostCount) - 1)}
GreetingToken == <<79, 107, 0>>
IsGreetingCall(e) ==
    /\ e.ev = "send_single"
    /\ e.buf = "greeting"
    /\ Len(e.data) >= Len(GreetingToken)
    /\ SubSeq(e.data, 1, Len(GreetingToken)) = GreetingToken

(* -------------------------------- C1 ------------------------------------ *)
\* C1: the transport calls of an invocation are, in this order, one
\* send_single carrying the greeting and one send_many(A, N); when the range
\* A..A+N-1 is readable (also when it overlaps the response or the command
\* buffer) the bulk frame is exactly the N bytes memory held there at
\* invocation time, in address order; no other transport call is made and a
\* completed invocation has made both.
C1_DumpFramesExact ==
    LET calls == TransportCalls
    IN  /\ Len(calls) <= 2
        /\ Len(calls) >= 1 => IsGreetingCall(calls[1])
        /\ Len(calls) = 2 =>
              /\ calls[2].ev = "send_many"
              /\ calls[2].addr = hostAddr
              /\ calls[2].len = hostCount
              /\ RangeReadable =>
                    /\ ~calls[2].fault
                    /\ calls[2].data = ExpectedFrame
        /\ (pc = "done" /\ RangeReadable) => Len(calls) = 2
\* a completed dump of a range that covers the (non-zero) status byte
C1_Witness ==
    /\ pc = "done"
    /\ RangeReadable
    /\ WordToNat(hostCount) >= 2
    /\ ToWord(StatusAddr) \in RequestedAddrs
    /\ mem0[StatusAddr] # StatusValue
    /\ Len(TransportCalls) = 2
    /\ TransportCalls[2].data = ExpectedFrame

(* -------------------------------- C2 ------------------------------------ *)
\* C2: the frame handed to send_single is exactly 3 bytes long ('O', 'k' and
\* one zero byte): the length argument of the call is 3.
C2_GreetingLengthIsThree ==
    \A i \in 1..Len(trace) :
        trace[i].ev = "send_single" =>
            /\ trace[i].len = ToWord(3)
            /\ trace[i].data = GreetingToken

(* -------------------------------- C3 ------------------------------------ *)
\* C3: the status byte of the response buffer is written at most once, only
\* after send_many has returned (which is after the greeting send), and with
\* the value 0; a completed invocation has written it exactly once.
C3_StatusWrittenOnceAfterBulk ==
    /\ Cardinality(StatusStores) <= 1
    /\ \A i \in StatusStores :
          /\ trace[i].data = <<0>>
          /\ \E j \in 1..(i - 1) :
                /\ trace[j].ev = "send_many"
                /\ ~trace[j].fault
                /\ \E k \in 1..(j - 1) : trace[k].ev = "send_single"
    /\ mem[StatusAddr] # mem0[StatusAddr] => StatusStores # {}
    /\ pc = "done" =>
          /\ Cardinality(StatusStores) = 1
          /\ mem[StatusAddr] = 0
\* a completed invocation that turned a non-zero status byte into 0 after a
\* non-empty bulk transfer
C3_Witness ==
    /\ pc = "done"
    /\ mem0[StatusAddr] # 0
    /\ mem[StatusAddr] = 0
    /\ Cardinality(StatusStores) = 1
    /\ Len(TransportCalls) = 2
    /\ Len(TransportCalls[2].data) > 0

(* -------------------------------- C4 ------------------------------------ *)
\* C4: with count 0 and any address, mapped or not, the invocation does not
\* fault, and when it has completed it has sent the greeting, called
\* send_many with length 0 and an empty frame, stored status 0 and
\* returned 0.
C4_ZeroCount ==
    hostCount = ToWord(0) =>
        /\ pc # "fault"
        /\ \A i \in 1..Len(trace) :
              trace[i].ev = "send_many" =>
                  /\ trace[i].len = ToWord(0)
                  /\ trace[i].data = <<>>
                  /\ trace[i].addr = hostAddr
        /\ pc = "done" =>
              /\ Len(TransportCalls) = 2
              /\ IsGreetingCall(TransportCalls[1])
              /\ TransportCalls[2].ev = "send_many"
              /\ StatusStores # {}
              /\ mem[StatusAddr] = 0
              /\ r0 = 0
\* a completed zero-length dump from an unmapped address
C4_Witness ==
    /\ hostCount = ToWord(0)
    /\ ~Readable(mem, hostAddr)
    /\ pc = "done"
    /\ mem0[StatusAddr] # 0
    /\ TransportCalls[2].data = <<>>

(* -------------------------------- C5 ------------------------------------ *)
\* C5: when _start returns, r2-r12 and lr hold the values they held at
\* entry, whatever the adapter body (adr r9) and the call to doit left in
\* them, and the stack pointer is back at its entry value.
C5_RegistersPreserved ==
    pc \in {"ret", "done"} => (regs = regs0 /\ sp = sp0)
\* a return after the call changed r2, r9 and lr
C5_Witness ==
    /\ pc = "done"
    /\ preRestore[2] # regs0[2]
    /\ preRestore[9] # regs0[9]
    /\ preRestore[14] # regs0[14]
    /\ regs = regs0

(* -------------------------------- C6 ------------------------------------ *)
\* C6: the only byte of memory an invocation writes is offset 0 of the
\* response buffer: every store is one byte at that address, a completed
\* invocation has made exactly one, and every other byte of the response
\* buffer still holds its value from before the invocation (so no dumped
\* data went into it).
C6_ResponseBufferFrame ==
    /\ \A k \in 0..(RespLen - 1) :
          k # StatusOffset => mem[write_buf + k] = mem0[write_buf + k]
    /\ \A i \in 1..Len(trace) :
          trace[i].ev = "store" => WritesOf(trace[i]) = {ToWord(StatusAddr)}
    /\ pc = "done" =>
          Cardinality({i \in 1..Len(trace) : trace[i].ev = "store"}) = 1
\* a completed non-empty dump whose response buffer held non-zero bytes
\* beyond offset 0
C6_Witness ==
    /\ pc = "done"
    /\ Len(TransportCalls[2].data) > 0
    /\ \A k \in 1..(RespLen - 1) : mem0[write_buf + k] # 0
    /\ mem[StatusAddr] # mem0[StatusAddr]

(* -------------------------------- C7 ------------------------------------ *)
\* C7: no input is rejected: once past the send_many step, send_many has
\* been called, and always with exactly the address stored at offset 4 and
\* the count stored at offset 8; doit returns 0 whenever it returns; and
\* _start returns the value doit returned.
C7_NoInputRejected ==
    /\ \A i \in 1..Len(trace) :
          trace[i].ev = "send_many" =>
              /\ trace[i].addr = hostAddr
              /\ trace[i].len = hostCount
    /\ pc \in {"write", "fault", "doit_ret", "assign", "ldmfd", "ret", "done"} =>
          \E i \in 1..Len(trace) : trace[i].ev = "send_many"
    /\ doitStatus \in {-1, DoitReturnValue}
    /\ pc \in {"assign", "ldmfd", "ret", "done"} => doitStatus = 0
    /\ pc = "done" => r0 = doitStatus
\* send_many was handed address 0xFFFFFFFF and count 0xFFFFFFFF as they came
C7_Witness ==
    /\ hostAddr = MaxWord
    /\ hostCount = MaxWord
    /\ \E i \in 1..Len(trace) :
          /\ trace[i].ev = "send_many"
          /\ trace[i].addr = MaxWord
          /\ trace[i].len = MaxWord

(* -------------------------------- C8 ------------------------------------ *)
\* C8 as stated: no step of the invocation changes a byte of the command
\* buffer (offsets 0..11), so decoding it again at any later point yields
\* the pair (address, count) decoded at the start.
C8_CommandBufferUnchanged ==
    /\ \A k \in 0..(CmdLen - 1) : mem[read_buf + k] = mem0[read_buf + k]
    /\ \A i \in 1..Len(trace) : WritesOf(trace[i]) \cap CmdAddrs = {}
    /\ pc \in {"send_single", "send_many", "write", "fault", "doit_ret",
               "assign", "ldmfd", "ret", "done"} =>
          /\ LoadWord(mem, read_buf + AddrOffset, bigEndian) = tar_addr
          /\ LoadWord(mem, read_buf + SizeOffset, bigEndian) = size
\* C8 amended: the pair doit decodes is the pair the command buffer held at
\* invocation time; decoding changes nothing, and the only byte of the
\* command buffer a later step can change is the one at write_buf[0], when
\* the response buffer starts inside the command buffer.  Every other byte
\* of the command buffer keeps its value, and when write_buf[0] lies
\* outside the command buffer the whole buffer is unchanged and decoding it
\* again yields the pair decoded at the start.
C8_CommandBufferFrame ==
    /\ \A k \in 0..(CmdLen - 1) :
          read_buf + k # StatusAddr => mem[read_buf + k] = mem0[read_buf + k]
    /\ \A i \in 1..Len(trace) :
          WritesOf(trace[i]) \cap CmdAddrs \subseteq {ToWord(StatusAddr)}
    /\ pc \in {"entry", "adr", "call", "load_size", "load_addr",
               "send_single", "send_many", "fault"} => mem = mem0
    /\ pc \in {"send_single", "send_many", "write", "fault", "doit_ret",
               "assign", "ldmfd", "ret", "done"} =>
          /\ LoadWord(mem0, read_buf + AddrOffset, bigEndian) = tar_addr
          /\ LoadWord(mem0, read_buf + SizeOffset, bigEndian) = size
          /\ ToWord(StatusAddr) \notin CmdAddrs =>
                /\ \A k \in 0..(CmdLen - 1) :
                      mem[read_buf + k] = mem0[read_buf + k]
                /\ LoadWord(mem, read_buf + AddrOffset, bigEndian) = tar_addr
                /\ LoadWord(mem, read_buf + SizeOffset, bigEndian) = size
\* a completed invocation whose status store landed in the count field of
\* the command buffer and changed it, after the count had been decoded
C8_Witness ==
    /\ pc = "done"
    /\ StatusAddr \in (read_buf + SizeOffset)..(read_buf + CmdLen - 1)
    /\ mem[StatusAddr] # mem0[StatusAddr]
    /\ LoadWord(mem, read_buf + SizeOffset, bigEndian) # size
    /\ size = hostCount
    /\ mem0[read_buf] # 0
    /\ mem[read_buf] = mem0[read_buf]

(* -------------------------------- C9 ------------------------------------ *)
\* C9 as stated: both fields are read before the first transport call, the
\* values send_many gets are the ones read then, and no byte of the command
\* buffer is read once a transport call has started.
C9_CmdNeverReadAfterTransport ==
    /\ \A i \in 1..Len(trace) :
          IsTransport(trace[i]) =>
              /\ \E j \in 1..(i - 1) :
                    /\ trace[j].ev = "load"
                    /\ trace[j].addr = ToWord(read_buf + AddrOffset)
              /\ \E j \in 1..(i - 1) :
                    /\ trace[j].ev = "load"
                    /\ trace[j].addr = ToWord(read_buf + SizeOffset)
    /\ \A i \in 1..Len(trace) : \A j \in i..Len(trace) :
          IsTransport(trace[i]) => ReadsOf(trace[j]) \cap CmdAddrs = {}
\* C9 amended: both fields are read before the first transport call, doit
\* itself loads nothing from the command buffer once a transport call has
\* started, and the values send_many gets are the ones read before; the
\* only later reads of command-buffer bytes are those of send_many, inside
\* the range the command asked for.
C9_DecodeBeforeTransport ==
    /\ \A i \in 1..Len(trace) :
          IsTransport(trace[i]) =>
              /\ \E j \in 1..(i - 1) :
                    /\ trace[j].ev = "load"
                    /\ trace[j].addr = ToWord(read_buf + AddrOffset)
                    /\ trace[i].ev = "send_many" => trace[i].addr = trace[j].data[1]
              /\ \E j \in 1..(i - 1) :
                    /\ trace[j].ev = "load"
                    /\ trace[j].addr = ToWord(read_buf + SizeOffset)
                    /\ trace[i].ev = "send_many" => trace[i].len = trace[j].data[1]
    /\ \A i \in 1..Len(trace) : \A j \in i..Len(trace) :
          IsTransport(trace[i]) =>
              /\ trace[j].ev # "load"
              /\ ReadsOf(trace[j]) \cap CmdAddrs # {} =>
                    /\ trace[j].ev = "send_many"
                    /\ trace[j].addr = hostAddr
                    /\ NatLeqWord(Len(trace[j].data), hostCount)
\* a completed dump whose range lies inside the command buffer
C9_Witness ==
    /\ pc = "done"
    /\ WordToNat(hostCount) > 0
    /\ RangeReadable
    /\ RequestedAddrs \subseteq CmdAddrs
    /\ TransportCalls[2].data = ExpectedFrame

(* -------------------------------- C10 ----------------------------------- *)
\* C10: a fault while send_many reads the range ends the invocation there:
\* the faulting send_many is the last thing that happened, the greeting was
\* sent before it, memory (the status byte included) is as it was before
\* the invocation, and nothing was returned; no status other than 0 is ever
\* stored or returned.
C10_FaultNotReported ==
    /\ \A i \in 1..Len(trace) :
          (trace[i].ev = "send_many" /\ trace[i].fault) =>
              (i = Len(trace) /\ pc = "fault")
    /\ pc = "fault" =>
          /\ mem = mem0
          /\ StatusStores = {}
          /\ Len(TransportCalls) = 2
          /\ IsGreetingCall(TransportCalls[1])
          /\ TransportCalls[2].fault
          /\ doitStatus = -1
          /\ res = -1
    /\ \A i \in 1..Len(trace) : trace[i].ev = "store" => trace[i].data = <<0>>
    /\ doitStatus \in {-1, 0}
\* a fault after part of the range was streamed, status byte non-zero
C10_Witness ==
    /\ pc = "fault"
    /\ Len(TransportCalls[2].data) > 0
    /\ mem0[StatusAddr] # 0
    /\ mem[StatusAddr] = mem0[StatusAddr]

=============================================================================
